---- MODULE Spec2Model ----
(***************************************************************************)
(* Sudoku core (src/src/sudoku.ts) and the game state of the UI            *)
(* (src/src/main.tsx).                                                     *)
(*                                                                         *)
(* A Grid is a function [0..8 -> [0..8 -> Cell]]; the empty cell (null of  *)
(* the source) is the value null below.  Grids that the source mutates in  *)
(* place live in a heap (a sequence of grids) and are named by their index *)
(* (a reference), so that cloning and aliasing are visible.                *)
(***************************************************************************)
EXTENDS Integers, Sequences, FiniteSets, TLC

VARIABLES
  pc,          \* position of the running call / of the harness
  difficulty,  \* argument of generatePuzzle; the UI's difficulty state
  rng,         \* state of the Math.random stream
  heap,        \* the grids allocated so far
  solution,    \* reference of the solved grid (0: not yet allocated)
  puzzle,      \* reference of the puzzle grid (0: not yet allocated)
  positions,   \* the shuffled removal order
  idx,         \* index of the next position of the for-of loop
  clues,       \* the counter of generatePuzzle
  arg,         \* reference of the grid a solver function is called with
  before,      \* the cells of that grid when the call was made
  ret,         \* what the call returned
  current,     \* UI state: the in-progress grid
  fixedCells,  \* UI state: the mask of the clues
  selectedCell,\* UI state: the selected cell, or NoCell
  stored,      \* the GameState kept in localStorage, or NoState
  generated    \* the games generatePuzzle returns to the UI, by difficulty and stream

genVars == <<rng, solution, puzzle, positions, idx, clues>>
callVars == <<arg, before, ret>>
uiVars == <<current, fixedCells, selectedCell, stored, generated>>
vars == <<pc, difficulty, heap, genVars, callVars, uiVars>>

\* ------------------------------------------------------------------ bounds
\* number of seeds of the random stream that are explored
MaxSeed == 3
\* number of seeds explored for generateSolvedGrid alone
MaxGridSeed == 200
\* the grids handed to the solver functions have at most MaxEmpty empty cells
MaxEmpty == 20
\* the caps handed to countSolutions are 0..MaxCap
MaxCap == 3
\* number of seeds of the random stream explored for the games of the UI
MaxGameSeed == 1
\* the player clicks, and the hint selects, the cells 0..MaxCell
MaxCell == 4
\* requiresLookahead is called on grids with MinLookEmpty..MaxLookEmpty
\* empty cells, one of the first MaxLookCell of them holding null or a digit
MinLookEmpty == 50
MaxLookEmpty == 56
MaxLookCell == 1
\* canSolveWithBasicDeduction is called on grids with
\* MinDeduceEmpty..MaxDeduceEmpty empty cells
MinDeduceEmpty == 18
MaxDeduceEmpty == 26
\* a search runs for at most 2^SearchDepth steps
SearchDepth == 24
\* a loop over the cells (81 cells, 9 x 9 unit/digit pairs, 81 x 2 cell/candidate
\* pairs) runs for at most
\* 2^PassDepth passes
PassDepth == 8

\* ------------------------------------------------------------------ cells
\* the empty cell
null == -1

Difficulty == {"easy", "medium", "hard"}

\* cell k (row-major, 0..80) of a grid
rowOf(k) == k \div 9
colOf(k) == k % 9

createEmptyGrid == [r \in 0..8 |-> [c \in 0..8 |-> null]]

\* a clone that is the same grid: no allocation, the same reference
cloneGridAlias(h, ref) == [heap |-> h, ref |-> ref]

\* grid.map(row => [...row]) allocates a fresh grid holding the same cells
cloneGrid(h, ref) == [heap |-> Append(h, h[ref]), ref |-> Len(h) + 1]

isValidPlacement(grid, row, col, num) ==
  /\ \A c \in 0..8 : c = col \/ grid[row][c] # num
  /\ \A r \in 0..8 : r = row \/ grid[r][col] # num
  /\ \A r \in ((row \div 3) * 3)..((row \div 3) * 3 + 2) :
       \A c \in ((col \div 3) * 3)..((col \div 3) * 3 + 2) :
          (r = row /\ c = col) \/ grid[r][c] # num

getViolations(grid) ==
  {k \in 0..80 : /\ grid[rowOf(k)][colOf(k)] # null
                 /\ ~isValidPlacement(grid, rowOf(k), colOf(k), grid[rowOf(k)][colOf(k)])}

isSolved(grid) ==
  \A row \in 0..8 : \A col \in 0..8 :
     /\ grid[row][col] # null
     /\ isValidPlacement(grid, row, col, grid[row][col])

\* the elements of a set of numbers in ascending order
ascending(S) ==
  [i \in 1..Cardinality(S) |->
     CHOOSE num \in S : Cardinality({m \in S : m < num}) = i - 1]

\* the candidates of a cell, in ascending order
getCandidates(grid, row, col) ==
  IF grid[row][col] # null THEN <<>>
  ELSE ascending({num \in 1..9 : isValidPlacement(grid, row, col, num)})

\* ---------------------------------------------------------------- shuffle
\* Math.random(): one stream of a linear congruential generator per seed;
\* value x stands for the real number x / 65537 in [0, 1)
random(x) == (x * 75 + 74) % 65537

\* Math.floor(Math.random() * (i + 1)) for the draw x, as a 1-based index:
\* position i here is index i - 1 of the source
randomIndex(x, i) == ((x * i) \div 65537) + 1

swap(array, i, j) == [array EXCEPT ![i] = array[j], ![j] = array[i]]

\* one pass of the loop of shuffle, for (i = length - 1; i > 0; i--);
\* st = [array, rng, i]
shuffleStep(st) ==
  [array |-> swap(st.array, st.i, randomIndex(random(st.rng), st.i)),
   rng |-> random(st.rng),
   i |-> st.i - 1]

\* up to 2^d passes of that loop
RECURSIVE shuffleRun(_, _)
shuffleRun(st, d) ==
  IF st.i <= 1 THEN st
  ELSE IF d = 0 THEN shuffleStep(st)
  ELSE LET half == shuffleRun(st, d - 1)
       IN shuffleRun(half, d - 1)

\* the shuffled array and the stream after it
shuffle(array, x) ==
  shuffleRun([array |-> array, rng |-> x, i |-> Len(array)], PassDepth)

\* ----------------------------------------------------------------- solver
\* the first empty cell in row-major order (the scan of lines 102-104 and
\* 128-130), 81 if there is none
firstEmpty(grid) ==
  IF \A r \in 0..8 : \A c \in 0..8 : grid[r][c] # null THEN 81
  ELSE LET row == CHOOSE r \in 0..8 :
                    /\ \E c \in 0..8 : grid[r][c] = null
                    /\ \A r2 \in 0..(r - 1) : \A c \in 0..8 : grid[r2][c] # null
           col == CHOOSE c \in 0..8 :
                    /\ grid[row][c] = null
                    /\ \A c2 \in 0..(c - 1) : grid[row][c2] # null
       IN row * 9 + col

\* The recursion of solveInPlace and of backtrack, with its call stack made
\* explicit.  A search state is [grid, stack, k, num, count, status]: stack
\* holds the cells of the calls waiting for a recursive call (each holds the
\* digit it placed), k is the first empty cell found by the running call,
\* num the digit its loop is at, status "run" until the outermost call has
\* returned "true" or "false".
startSearch(grid) ==
  [grid |-> grid, stack |-> <<>>, k |-> firstEmpty(grid), num |-> 1,
   count |-> 0, status |-> "run"]

\* the cell of the innermost waiting call
top(st) == st.stack[Len(st.stack)]

\* the innermost waiting call empties its cell again (lines 112, 136, 139)
undo(st) ==
  [st EXCEPT !.grid = [st.grid EXCEPT ![rowOf(top(st))][colOf(top(st))] = null],
             !.stack = SubSeq(st.stack, 1, Len(st.stack) - 1)]

\* the running call returns false: its caller undoes its placement and moves
\* to the next digit
returnFalse(st) ==
  IF st.stack = <<>> THEN [st EXCEPT !.status = "false"]
  ELSE [undo(st) EXCEPT !.k = top(st),
                        !.num = st.grid[rowOf(top(st))][colOf(top(st))] + 1]

\* the running call places num and calls itself
placeAndCall(st) ==
  [startSearch([st.grid EXCEPT ![rowOf(st.k)][colOf(st.k)] = st.num])
     EXCEPT !.stack = Append(st.stack, st.k), !.count = st.count]

\* a loop over the digits that places num without asking isValidPlacement
tryDigitUnchecked(st) ==
  IF st.num > 9 THEN returnFalse(st) ELSE placeAndCall(st)

\* the loop over the digits of the running call (lines 105-115, 131-142)
tryDigit(st) ==
  IF st.num > 9 THEN returnFalse(st)
  ELSE IF isValidPlacement(st.grid, rowOf(st.k), colOf(st.k), st.num)
       THEN placeAndCall(st)
       ELSE [st EXCEPT !.num = st.num + 1]

\* one step of solveInPlace: on success every call returns true and the
\* grid stays filled
solveStep(st) ==
  IF st.k = 81 THEN [st EXCEPT !.status = "true"] ELSE tryDigit(st)

\* up to 2^d steps of solveInPlace
RECURSIVE solveRun(_, _)
solveRun(st, d) ==
  IF st.status # "run" THEN st
  ELSE IF d = 0 THEN solveStep(st)
  ELSE LET half == solveRun(st, d - 1)
       IN solveRun(half, d - 1)

\* the search state solveInPlace ends in: status "true" or "false" is what
\* it returns, grid the grid as it leaves it
solveInPlace(grid) == solveRun(startSearch(grid), SearchDepth)

\* the heap with the work grid w.ref holding `grid`
written(w, grid) == [w.heap EXCEPT ![w.ref] = grid]

\* the heap once a function has returned without handing out its work grid:
\* what it allocated (the grids after the first n) is garbage
release(w, grid, n) == SubSeq(written(w, grid), 1, n)

\* lines 93-96 of solve for the work grid w and the search state s
solveReturn(w, s, n) ==
  IF s.status = "true"
  THEN [heap |-> written(w, s.grid), result |-> w.ref]
  ELSE [heap |-> release(w, s.grid, n), result |-> 0]

solveOn(w, n) == solveReturn(w, solveInPlace(w.heap[w.ref]), n)

\* solve: the heap after the call and the reference of the returned grid,
\* 0 for null
solve(h, ref) == solveOn(cloneGrid(h, ref), Len(h))

\* one step of backtrack: a full grid is counted (line 146); at maxCount
\* every call returns true, each caller undoing its placement on the way
\* (status "unwind", line 136)
backtrackStep(st, maxCount) ==
  IF st.status = "unwind"
  THEN IF st.stack = <<>> THEN [st EXCEPT !.status = "true"] ELSE undo(st)
  ELSE IF st.k = 81
  THEN IF st.count + 1 >= maxCount
       THEN [st EXCEPT !.count = st.count + 1, !.status = "unwind"]
       ELSE returnFalse([st EXCEPT !.count = st.count + 1])
  ELSE tryDigit(st)

\* up to 2^d steps of backtrack
RECURSIVE backtrackRun(_, _, _)
backtrackRun(st, maxCount, d) ==
  IF st.status \in {"true", "false"} THEN st
  ELSE IF d = 0 THEN backtrackStep(st, maxCount)
  ELSE LET half == backtrackRun(st, maxCount, d - 1)
       IN backtrackRun(half, maxCount, d - 1)

\* line 151 of countSolutions for the work grid w and the search state s
countReturn(w, s, n) == [heap |-> release(w, s.grid, n), result |-> s.count]

countOn(w, maxCount, n) ==
  countReturn(w, backtrackRun(startSearch(w.heap[w.ref]), maxCount, SearchDepth), n)

\* countSolutions: the heap after the call and the count
countSolutions(h, ref, maxCount) == countOn(cloneGrid(h, ref), maxCount, Len(h))

\* -------------------------------------------------------------- generator
\* the 3x3 box `box` of the diagonal filled row by row with nums
\* (lines 161-169; nums[idx++] of the source is nums[idx + 1] here)
fillBox(grid, box, nums) ==
  [grid EXCEPT ![box * 3][box * 3] = nums[1],
               ![box * 3][box * 3 + 1] = nums[2],
               ![box * 3][box * 3 + 2] = nums[3],
               ![box * 3 + 1][box * 3] = nums[4],
               ![box * 3 + 1][box * 3 + 1] = nums[5],
               ![box * 3 + 1][box * 3 + 2] = nums[6],
               ![box * 3 + 2][box * 3] = nums[7],
               ![box * 3 + 2][box * 3 + 1] = nums[8],
               ![box * 3 + 2][box * 3 + 2] = nums[9]]

\* the shuffled digits sh placed in the box
placeBox(grid, box, sh) == [grid |-> fillBox(grid, box, sh.array), rng |-> sh.rng]

\* one pass of the loop over the diagonal boxes (lines 159-170);
\* st = [grid, rng]
diagonalBox(st, box) ==
  placeBox(st.grid, box, shuffle(<<1, 2, 3, 4, 5, 6, 7, 8, 9>>, st.rng))

\* lines 173-174 for the grid with its diagonal boxes: the result of
\* solveInPlace is ignored, when it is false the grid is left with the
\* three boxes only
solvedGrid(h, st) ==
  [heap |-> Append(h, solveInPlace(st.grid).grid), ref |-> Len(h) + 1, rng |-> st.rng]

\* the grid allocated by generateSolvedGrid, its reference and the stream
generateSolvedGrid(h, x) ==
  solvedGrid(h, diagonalBox(diagonalBox(diagonalBox(
                   [grid |-> createEmptyGrid, rng |-> x], 0), 1), 2))

\* ------------------------------------------------------------- classifier
\* The loops of applyNakedSingles, applyHiddenSingles and of the lookahead
\* scan work on a state st = [grid, changed, i], i counting the passes of
\* the loop from 0.

\* a fill that takes the first candidate of any cell that has candidates
nakedFillFirst(st, candidates) ==
  IF Len(candidates) >= 1
  THEN [grid |-> [st.grid EXCEPT ![rowOf(st.i)][colOf(st.i)] = candidates[1]],
        changed |-> TRUE, i |-> st.i + 1]
  ELSE [st EXCEPT !.i = st.i + 1]

\* lines 184-188 for cell i and its candidates
nakedFill(st, candidates) ==
  IF Len(candidates) = 1
  THEN [grid |-> [st.grid EXCEPT ![rowOf(st.i)][colOf(st.i)] = candidates[1]],
        changed |-> TRUE, i |-> st.i + 1]
  ELSE [st EXCEPT !.i = st.i + 1]

\* one pass of the loop of applyNakedSingles, for cell i
\* (getCandidates is empty for a filled cell)
nakedStep(st) == nakedFill(st, getCandidates(st.grid, rowOf(st.i), colOf(st.i)))

\* the cells of row a, of column a, of box a (boxRow * 3 + boxCol)
unitCells(kind, a) ==
  CASE kind = "row" -> {k \in 0..80 : rowOf(k) = a}
    [] kind = "col" -> {k \in 0..80 : colOf(k) = a}
    [] kind = "box" -> {k \in 0..80 : (rowOf(k) \div 3) * 3 + (colOf(k) \div 3) = a}

\* the empty cells of a unit where num can go (lines 202-207, 220-225, 239-248)
unitPositions(grid, kind, a, num) ==
  {k \in unitCells(kind, a) : /\ grid[rowOf(k)][colOf(k)] = null
                              /\ isValidPlacement(grid, rowOf(k), colOf(k), num)}

\* lines 208-213, 226-231, 249-254 for the positions found
hiddenFill(st, where, num) ==
  IF Cardinality(where) = 1
  THEN [grid |-> [st.grid EXCEPT ![rowOf(CHOOSE k \in where : TRUE)]
                                  [colOf(CHOOSE k \in where : TRUE)] = num],
        changed |-> TRUE, i |-> st.i + 1]
  ELSE [st EXCEPT !.i = st.i + 1]

\* one pass of a loop of applyHiddenSingles, for unit i div 9 and digit
\* i mod 9 + 1
hiddenStep(st, kind) ==
  hiddenFill(st, unitPositions(st.grid, kind, st.i \div 9, (st.i % 9) + 1), (st.i % 9) + 1)

singlesStep(st, phase) ==
  IF phase = "naked" THEN nakedStep(st) ELSE hiddenStep(st, phase)

\* up to 2^d passes of such a loop
RECURSIVE singlesRun(_, _, _)
singlesRun(st, phase, d) ==
  IF st.i > 80 THEN st
  ELSE IF d = 0 THEN singlesStep(st, phase)
  ELSE LET half == singlesRun(st, phase, d - 1)
       IN singlesRun(half, phase, d - 1)

\* the next loop starts over
rewind(st) == [st EXCEPT !.i = 0]

\* the grid as the function leaves it, and what it returns
applyNakedSingles(grid) ==
  singlesRun([grid |-> grid, changed |-> FALSE, i |-> 0], "naked", PassDepth)

\* rows, then columns, then boxes, each on the grid the one before left
applyHiddenSingles(grid) ==
  singlesRun(rewind(singlesRun(rewind(singlesRun(
      [grid |-> grid, changed |-> FALSE, i |-> 0], "row", PassDepth)),
      "col", PassDepth)), "box", PassDepth)

\* progress = f(workGrid) || progress, for the state hs that f ended in
orProgress(hs, progress) == [hs EXCEPT !.changed = hs.changed \/ progress]

\* line 270 after line 269 has ended in n
hiddenAfter(n) == orProgress(applyHiddenSingles(n.grid), n.changed)

\* one pass of while (progress) { naked singles; hidden singles }
basicPass(grid) == hiddenAfter(applyNakedSingles(grid))

\* the grid that loop ends with
RECURSIVE basicDeduction(_)
basicLoop(p) == IF p.changed THEN basicDeduction(p.grid) ELSE p.grid

basicDeduction(grid) == basicLoop(basicPass(grid))

\* line 273 for the work grid w and the grid the loop ended with
basicReturn(w, grid, n) == [heap |-> release(w, grid, n), result |-> isSolved(grid)]

basicOn(w, n) == basicReturn(w, basicDeduction(w.heap[w.ref]), n)

\* canSolveWithBasicDeduction: the heap after the call and the result
canSolveWithBasicDeduction(h, ref) == basicOn(cloneGrid(h, ref), Len(h))

\* -------------------------------------------------------------- lookahead
\* lines 311-317: an empty cell without candidates
hasDeadCell(grid) ==
  \E k \in 0..80 : /\ grid[rowOf(k)][colOf(k)] = null
                   /\ getCandidates(grid, rowOf(k), colOf(k)) = <<>>

\* line 309: applyNakedSingles(testGrid) || applyHiddenSingles(testGrid);
\* the hidden singles are not applied when the naked ones changed the grid
nakedOrHidden(n) == IF n.changed THEN n ELSE applyHiddenSingles(n.grid)

testPass(testGrid) == nakedOrHidden(applyNakedSingles(testGrid))

\* the loop of lines 308-318 on a trial grid: does it end in a contradiction
RECURSIVE reachesContradiction(_)
testNext(p) ==
  IF hasDeadCell(p.grid) THEN TRUE
  ELSE IF p.changed THEN reachesContradiction(p.grid) ELSE FALSE

reachesContradiction(testGrid) == testNext(testPass(testGrid))

\* lines 301-318 for a cell and one of its candidates; testGrid is a clone
\* of workGrid, which keeps its cells during the trial
contradicts(workGrid, row, col, candidate) ==
  reachesContradiction([workGrid EXCEPT ![row][col] = candidate])

\* a trial that places the candidate it found contradictory
lookaheadTryKeepsTried(st, row, col, candidates) ==
  IF Len(candidates) = 2 /\ contradicts(st.grid, row, col, candidates[(st.i % 2) + 1])
  THEN [grid |-> [st.grid EXCEPT ![row][col] = candidates[(st.i % 2) + 1]],
        changed |-> TRUE, i |-> 162]
  ELSE [st EXCEPT !.i = st.i + 1]

\* lines 299-328 for cell st.i div 2 and its candidates, trying
\* candidates[st.i mod 2 + 1]; a contradiction places the other candidate
\* and ends the scan
lookaheadTry(st, row, col, candidates) ==
  IF Len(candidates) = 2 /\ contradicts(st.grid, row, col, candidates[(st.i % 2) + 1])
  THEN [grid |-> [st.grid EXCEPT ![row][col] = candidates[2 - (st.i % 2)]],
        changed |-> TRUE, i |-> 162]
  ELSE [st EXCEPT !.i = st.i + 1]

lookaheadStep(st) ==
  lookaheadTry(st, rowOf(st.i \div 2), colOf(st.i \div 2),
               getCandidates(st.grid, rowOf(st.i \div 2), colOf(st.i \div 2)))

\* up to 2^d passes of the scan of lines 295-334
RECURSIVE lookaheadRun(_, _)
lookaheadRun(st, d) ==
  IF st.i > 161 THEN st
  ELSE IF d = 0 THEN lookaheadStep(st)
  ELSE LET half == lookaheadRun(st, d - 1)
       IN lookaheadRun(half, d - 1)

\* lines 292-335: the scan runs when the basic techniques made no progress
scanUnlessProgress(p) ==
  IF p.changed THEN p
  ELSE lookaheadRun([grid |-> p.grid, changed |-> FALSE, i |-> 0], PassDepth)

\* one pass of the loop of lines 287-336
lookaheadPass(workGrid) == scanUnlessProgress(basicPass(workGrid))

\* the grid that loop ends with
RECURSIVE lookaheadDeduction(_)
lookaheadLoop(p) == IF p.changed THEN lookaheadDeduction(p.grid) ELSE p.grid

lookaheadDeduction(workGrid) == lookaheadLoop(lookaheadPass(workGrid))

\* line 338 for the work grid w and the grid the loop ended with
lookaheadReturn(w, grid, n) == [heap |-> release(w, grid, n), result |-> isSolved(grid)]

lookaheadOn(w, n) == lookaheadReturn(w, lookaheadDeduction(w.heap[w.ref]), n)

\* lines 279-284 for what canSolveWithBasicDeduction returned
lookaheadUnlessBasic(basic, ref) ==
  IF basic.result THEN [heap |-> basic.heap, result |-> FALSE]
  ELSE lookaheadOn(cloneGrid(basic.heap, ref), Len(basic.heap))

\* requiresLookahead: the heap after the call and the result
requiresLookahead(h, ref) ==
  lookaheadUnlessBasic(canSolveWithBasicDeduction(h, ref), ref)

\* --------------------------------------------------------- puzzle builder
targetClues(diff) ==
  IF diff = "easy" THEN 45 ELSE IF diff = "medium" THEN 35 ELSE 28

\* lines 351-356: cell k stands for [k div 9, k mod 9]
allPositions == SubSeq([k \in 1..81 |-> k - 1], 1, 81)

\* lines 357-359 for the two grids: the shuffled order and the counter
startWith(sol, puz, sh) ==
  [heap |-> puz.heap, solution |-> sol.ref, puzzle |-> puz.ref,
   positions |-> sh.array, rng |-> sh.rng, clues |-> 81]

\* lines 345-357 for the solved grid
startFrom(sol) ==
  startWith(sol, cloneGrid(sol.heap, sol.ref), shuffle(allPositions, sol.rng))

\* lines 344-359 of generatePuzzle
generateStart(h, x) == startFrom(generateSolvedGrid(h, x))

\* rowArr[col] = value on the puzzle grid (lines 366, 370, 377, 382)
setCell(h, puz, k, value) == [h EXCEPT ![puz][rowOf(k)][colOf(k)] = value]

\* a difficulty check that keeps the removal whatever the classifier said
keepIfBasicIgnored(basic, puz, k, n, backup) ==
  [heap |-> basic.heap, clues |-> n - 1]

\* lines 375-390 for what canSolveWithBasicDeduction returned
keepIfBasic(basic, puz, k, n, backup) ==
  IF ~basic.result
  THEN [heap |-> setCell(basic.heap, puz, k, backup), clues |-> n]
  ELSE [heap |-> basic.heap, clues |-> n - 1]

\* lines 369-390 for what countSolutions returned
keepIfUnique(count, puz, diff, k, n, backup) ==
  IF count.result # 1
  THEN [heap |-> setCell(count.heap, puz, k, backup), clues |-> n]
  ELSE IF diff \in {"easy", "medium"}
       THEN keepIfBasic(canSolveWithBasicDeduction(count.heap, puz), puz, k, n, backup)
       ELSE [heap |-> count.heap, clues |-> n - 1]

\* a pass that keeps the removal without counting the solutions
removeClueUnchecked(h, puz, diff, k, n) ==
  [heap |-> setCell(h, puz, k, null), clues |-> n - 1]

\* a pass that counts the removal even when it restores the digit
removeClueMiscounted(h, puz, diff, k, n) ==
  [heap |-> keepIfUnique(countSolutions(setCell(h, puz, k, null), puz, 2),
                         puz, diff, k, n, h[puz][rowOf(k)][colOf(k)]).heap,
   clues |-> n - 1]

\* one pass of the removal loop (lines 364-390) for the cell k;
\* the heap and the counter after it
removeClue(h, puz, diff, k, n) ==
  keepIfUnique(countSolutions(setCell(h, puz, k, null), puz, 2),
               puz, diff, k, n, h[puz][rowOf(k)][colOf(k)])

\* the for-of loop of lines 361-391: p.g is what generateStart returned, with
\* the heap and the counter of the passes made, p.i the next position
removalDone(p, diff) == p.i > 81 \/ p.g.clues <= targetClues(diff)

removalPassed(p, r) ==
  [g |-> [p.g EXCEPT !.heap = r.heap, !.clues = r.clues], i |-> p.i + 1]

removalPass(p, diff) ==
  removalPassed(p, removeClue(p.g.heap, p.g.puzzle, diff, p.g.positions[p.i],
                              p.g.clues))

\* the passes from p on until the loop ends, at most 2^d of them
RECURSIVE removalRun(_, _, _)
removalRun(p, diff, d) ==
  IF removalDone(p, diff) THEN p
  ELSE IF d = 0 THEN removalPass(p, diff)
  ELSE LET half == removalRun(p, diff, d - 1) IN removalRun(half, diff, d - 1)

removalLoop(g, diff) == removalRun([g |-> g, i |-> 1], diff, PassDepth).g

\* generatePuzzle(difficulty) on an empty heap with the stream at x:
\* heap[puzzle] and heap[solution] are the two grids returned
generatePuzzle(diff, x) == removalLoop(generateStart(<<>>, x), diff)

\* ---------------------------------------------- generatePuzzle, step by step
Seeds == 1..MaxSeed

NoCell == <<>>
NoState == <<>>

GenInit ==
  /\ pc = "start"
  /\ difficulty \in Difficulty
  /\ rng \in Seeds
  /\ heap = <<>>
  /\ solution = 0
  /\ puzzle = 0
  /\ positions = <<>>
  /\ idx = 0
  /\ clues = 0
  /\ arg = 0 /\ before = <<>> /\ ret = <<>>
  /\ current = <<>> /\ fixedCells = <<>> /\ selectedCell = NoCell /\ stored = NoState
  /\ generated = <<>>

GenStart ==
  /\ pc = "start"
  /\ \E s \in {generateStart(heap, rng)} :
        /\ heap' = s.heap
        /\ solution' = s.solution
        /\ puzzle' = s.puzzle
        /\ positions' = s.positions
        /\ rng' = s.rng
        /\ clues' = s.clues
  /\ idx' = 1
  /\ pc' = "loop"
  /\ UNCHANGED <<difficulty, callVars, uiVars>>

\* one pass of the for-of loop that does not break
GenRemove ==
  /\ pc = "loop"
  /\ idx <= 81
  /\ clues > targetClues(difficulty)
  /\ \E r \in {removeClue(heap, puzzle, difficulty, positions[idx], clues)} :
        /\ heap' = r.heap
        /\ clues' = r.clues
  /\ idx' = idx + 1
  /\ UNCHANGED <<pc, difficulty, rng, solution, puzzle, positions, callVars, uiVars>>

\* the break of line 362, or the positions are exhausted: return
GenReturn ==
  /\ pc = "loop"
  /\ idx > 81 \/ clues <= targetClues(difficulty)
  /\ pc' = "done"
  /\ UNCHANGED <<difficulty, heap, genVars, callVars, uiVars>>

GenNext == GenStart \/ GenRemove \/ GenReturn

GenSpec == GenInit /\ [][GenNext]_vars

\* ------------------------------------------- generateSolvedGrid, step by step
GridSeeds == 1..MaxGridSeed

GridInit ==
  /\ pc = "boxes"
  /\ difficulty = "easy"
  /\ rng \in GridSeeds
  /\ heap = <<createEmptyGrid>>
  /\ solution = 1
  /\ puzzle = 0
  /\ positions = <<>>
  /\ idx = 0
  /\ clues = 0
  /\ arg = 0 /\ before = <<>> /\ ret = <<>>
  /\ current = <<>> /\ fixedCells = <<>> /\ selectedCell = NoCell /\ stored = NoState
  /\ generated = <<>>

\* one pass of the loop over the diagonal boxes, for box idx
GridFillBox ==
  /\ pc = "boxes"
  /\ idx < 3
  /\ \E st \in {diagonalBox([grid |-> heap[solution], rng |-> rng], idx)} :
        /\ heap' = [heap EXCEPT ![solution] = st.grid]
        /\ rng' = st.rng
  /\ idx' = idx + 1
  /\ UNCHANGED <<pc, difficulty, solution, puzzle, positions, clues, callVars, uiVars>>

\* lines 173-174; ret keeps the boolean that the source ignores
GridSolve ==
  /\ pc = "boxes"
  /\ idx = 3
  /\ \E s \in {solveInPlace(heap[solution])} :
        /\ heap' = [heap EXCEPT ![solution] = s.grid]
        /\ ret' = (s.status = "true")
  /\ pc' = "done"
  /\ UNCHANGED <<difficulty, genVars, arg, before, uiVars>>

GridNext == GridFillBox \/ GridSolve

GridSpec == GridInit /\ [][GridNext]_vars

\* ------------------------------------------------- the solver functions
\* The grids the functions are called with: a grid of generateSolvedGrid
\* with the first n cells of an order emptied (row by row, or scattered) and
\* one of the last two cells of the order set to some digit, which may repeat
\* a digit of its row, column or box.
baseGrid == generateSolvedGrid(<<>>, 1).heap[1]

Orders == {allPositions, shuffle(allPositions, 1).array}

RECURSIVE clearCells(_, _, _)
clearCells(grid, order, n) ==
  IF n = 0 THEN grid
  ELSE clearCells([grid EXCEPT ![rowOf(order[n])][colOf(order[n])] = null], order, n - 1)

inputGrid(order, n, k, num) ==
  [clearCells(baseGrid, order, n) EXCEPT ![rowOf(order[k])][colOf(order[k])] = num]

CallInit ==
  /\ pc = "input"
  /\ \E order \in Orders : \E n \in 0..MaxEmpty : \E k \in 80..81 : \E num \in 1..9 :
        heap = <<inputGrid(order, n, k, num)>>
  /\ arg = 1
  /\ before = <<>>
  /\ ret = <<>>
  /\ difficulty = "easy"
  /\ rng = 0 /\ solution = 0 /\ puzzle = 0 /\ positions = <<>> /\ idx = 0 /\ clues = 0
  /\ current = <<>> /\ fixedCells = <<>> /\ selectedCell = NoCell /\ stored = NoState
  /\ generated = <<>>

\* the caller's state once fn has returned r
returned(fn, cap, r) ==
  /\ heap' = r.heap
  /\ ret' = [fn |-> fn, cap |-> cap, result |-> r.result]
  /\ before' = heap[arg]
  /\ pc' = "called"
  /\ UNCHANGED <<difficulty, genVars, arg, uiVars>>

CallSolve ==
  /\ pc = "input"
  /\ returned("solve", 0, solve(heap, arg))

CallCountSolutions ==
  /\ pc = "input"
  /\ \E cap \in 0..MaxCap :
        returned("countSolutions", cap, countSolutions(heap, arg, cap))

CallCanSolveWithBasicDeduction ==
  /\ pc = "input"
  /\ returned("canSolveWithBasicDeduction", 0, canSolveWithBasicDeduction(heap, arg))

CallRequiresLookahead ==
  /\ pc = "input"
  /\ returned("requiresLookahead", 0, requiresLookahead(heap, arg))

CallNext ==
  \/ CallSolve
  \/ CallCountSolutions
  \/ CallCanSolveWithBasicDeduction
  \/ CallRequiresLookahead

CallSpec == CallInit /\ [][CallNext]_vars

\* ------------------------------------------- requiresLookahead, step by step
\* heap[arg] is the caller's grid, heap[workRef] the workGrid of line 284;
\* idx counts the trials of the scan: cell idx div 2, candidate idx mod 2
workRef == 2

\* the grids requiresLookahead is called with: the solved grid with the
\* first n cells of an order emptied, and num written into the k-th of them
lookaheadInput(order, n, k, num) ==
  [clearCells(baseGrid, order, n) EXCEPT ![rowOf(order[k])][colOf(order[k])] = num]

LookInit ==
  /\ pc = "call"
  /\ \E order \in Orders : \E n \in MinLookEmpty..MaxLookEmpty :
       \E k \in 1..MaxLookCell : \E num \in {null} \cup (1..9) :
          heap = <<lookaheadInput(order, n, k, num)>>
  /\ getViolations(heap[1]) = {}
  /\ arg = 1
  /\ before = <<>>
  /\ ret = <<>>
  /\ idx = 0
  /\ difficulty = "easy"
  /\ rng = 0 /\ solution = 0 /\ puzzle = 0 /\ positions = <<>> /\ clues = 0
  /\ current = <<>> /\ fixedCells = <<>> /\ selectedCell = NoCell /\ stored = NoState
  /\ generated = <<>>

\* lines 279-284 for what canSolveWithBasicDeduction returned
lookEntered(basic) ==
  IF basic.result
  THEN /\ heap' = basic.heap
       /\ ret' = FALSE
       /\ pc' = "done"
  ELSE /\ heap' = cloneGrid(basic.heap, arg).heap
       /\ ret' = ret
       /\ pc' = "basic"

LookEnter ==
  /\ pc = "call"
  /\ lookEntered(canSolveWithBasicDeduction(heap, arg))
  /\ UNCHANGED <<difficulty, genVars, arg, before, uiVars>>

\* lines 288-290 for the pass p of the basic techniques: with progress the
\* scan is skipped and the loop runs again
lookBasicDone(p) ==
  /\ heap' = [heap EXCEPT ![workRef] = p.grid]
  /\ pc' = IF p.changed THEN "basic" ELSE "scan"

LookBasic ==
  /\ pc \in {"basic", "forced"}
  /\ lookBasicDone(basicPass(heap[workRef]))
  /\ idx' = 0
  /\ UNCHANGED <<difficulty, rng, solution, puzzle, positions, clues, callVars, uiVars>>

\* lines 299-328 for one candidate of one cell: st is the scan after it;
\* at "forced" (line 325) idx is still the trial that wrote the digit
lookTried(st) ==
  /\ heap' = [heap EXCEPT ![workRef] = st.grid]
  /\ pc' = IF st.changed THEN "forced" ELSE "scan"
  /\ idx' = IF st.changed THEN idx ELSE st.i

LookTry ==
  /\ pc = "scan"
  /\ idx <= 161
  /\ lookTried(lookaheadStep([grid |-> heap[workRef], changed |-> FALSE, i |-> idx]))
  /\ UNCHANGED <<difficulty, rng, solution, puzzle, positions, clues, callVars, uiVars>>

\* the scan ends without progress: the loop ends, line 338
LookReturn ==
  /\ pc = "scan"
  /\ idx > 161
  /\ ret' = isSolved(heap[workRef])
  /\ heap' = release([heap |-> heap, ref |-> workRef], heap[workRef], 1)
  /\ pc' = "done"
  /\ UNCHANGED <<difficulty, genVars, arg, before, uiVars>>

LookNext == LookEnter \/ LookBasic \/ LookTry \/ LookReturn

LookSpec == LookInit /\ [][LookNext]_vars

\* --------------------------------- canSolveWithBasicDeduction, step by step
\* heap[arg] is the caller's grid, heap[workRef] the workGrid of line 264;
\* pc is the loop that runs ("naked", then "row", "col", "box" of
\* applyHiddenSingles), idx its pass, ret the variable progress
DeducePhases == {"naked", "row", "col", "box"}

DeduceInit ==
  /\ pc = "call"
  /\ \E order \in Orders : \E n \in MinDeduceEmpty..MaxDeduceEmpty :
       \E k \in 1..MaxLookCell : \E num \in {null} \cup (1..9) :
          heap = <<lookaheadInput(order, n, k, num)>>
  /\ getViolations(heap[1]) = {}
  /\ arg = 1
  /\ before = <<>>
  /\ ret = FALSE
  /\ idx = 0
  /\ difficulty = "easy"
  /\ rng = 0 /\ solution = 0 /\ puzzle = 0 /\ positions = <<>> /\ clues = 0
  /\ current = <<>> /\ fixedCells = <<>> /\ selectedCell = NoCell /\ stored = NoState
  /\ generated = <<>>

\* lines 264-268: the clone, and the loop is entered with progress = false
DeduceEnter ==
  /\ pc = "call"
  /\ heap' = cloneGrid(heap, arg).heap
  /\ pc' = "naked"
  /\ idx' = 0
  /\ ret' = FALSE
  /\ UNCHANGED <<difficulty, rng, solution, puzzle, positions, clues, arg, before, uiVars>>

\* one pass of a loop of applyNakedSingles or applyHiddenSingles; st is the
\* loop after it
deduced(st) ==
  /\ heap' = [heap EXCEPT ![workRef] = st.grid]
  /\ ret' = st.changed
  /\ idx' = st.i

DeduceStep ==
  /\ pc \in DeducePhases
  /\ idx <= 80
  /\ deduced(singlesStep([grid |-> heap[workRef], changed |-> ret, i |-> idx], pc))
  /\ UNCHANGED <<pc, difficulty, rng, solution, puzzle, positions, clues, arg, before, uiVars>>

\* a loop has ended, the next one starts (line 270 after 269, lines 217
\* and 235 of applyHiddenSingles)
DeducePhase ==
  /\ pc \in {"naked", "row", "col"}
  /\ idx > 80
  /\ pc' = IF pc = "naked" THEN "row" ELSE IF pc = "row" THEN "col" ELSE "box"
  /\ idx' = 0
  /\ UNCHANGED <<difficulty, heap, rng, solution, puzzle, positions, clues, callVars, uiVars>>

\* while (progress): one more round (lines 267-268)
DeduceLoop ==
  /\ pc = "box"
  /\ idx > 80
  /\ ret = TRUE
  /\ pc' = "naked"
  /\ idx' = 0
  /\ ret' = FALSE
  /\ UNCHANGED <<difficulty, heap, rng, solution, puzzle, positions, clues, arg, before, uiVars>>

\* no progress: return isSolved(workGrid) (line 273)
DeduceReturn ==
  /\ pc = "box"
  /\ idx > 80
  /\ ret = FALSE
  /\ ret' = isSolved(heap[workRef])
  /\ heap' = release([heap |-> heap, ref |-> workRef], heap[workRef], 1)
  /\ pc' = "done"
  /\ UNCHANGED <<difficulty, genVars, arg, before, uiVars>>

DeduceNext ==
  \/ DeduceEnter
  \/ DeduceStep
  \/ DeducePhase
  \/ DeduceLoop
  \/ DeduceReturn

DeduceSpec == DeduceInit /\ [][DeduceNext]_vars

\* ------------------------------------------------------------ the UI
\* The state of App (main.tsx lines 15-19, 24): puzzle and solution are the
\* references of the two grids of generatePuzzle, current holds the cells of
\* the in-progress grid (every handler builds a fresh one), selectedCell is
\* <<row, col>> or NoCell for null.
GameSeeds == 1..MaxGameSeed

\* what generatePuzzle returns, for each difficulty and each stream; the
\* stream decides the game, so the games are computed once, at the mount
generatedGames(seeds) ==
  [diff \in Difficulty |-> [x \in seeds |-> generatePuzzle(diff, x)]]

\* a mask that marks no cell
markNoneFixed(newPuzzle) == [r \in 0..8 |-> [c \in 0..8 |-> FALSE]]

\* line 129: newPuzzle.map(row => row.map(cell => cell !== null))
markFixed(newPuzzle) == [r \in 0..8 |-> [c \in 0..8 |-> newPuzzle[r][c] # null]]

\* what saveState writes (lines 46-59) and loadState reads back: JSON keeps
\* numbers, null and booleans as they are
gameState(puz, sol, cur, fixed, diff) ==
  [puzzle |-> puz, solution |-> sol, current |-> cur, fixedCells |-> fixed,
   difficulty |-> diff]

\* lines 123-134 of startNewGame for the game g that generatePuzzle returned
startNewGame(diff, g) ==
  /\ heap' = g.heap
  /\ puzzle' = g.puzzle
  /\ solution' = g.solution
  /\ current' = cloneGrid(g.heap, g.puzzle).heap[cloneGrid(g.heap, g.puzzle).ref]
  /\ fixedCells' = markFixed(g.heap[g.puzzle])
  /\ difficulty' = diff
  /\ selectedCell' = NoCell
  /\ stored' = gameState(g.heap[g.puzzle], g.heap[g.solution], g.heap[g.puzzle],
                         markFixed(g.heap[g.puzzle]), diff)

\* lines 112-119
hasUserEntries ==
  \E r \in 0..8 : \E c \in 0..8 : ~fixedCells[r][c] /\ current[r][c] # null

\* the numbers the buttons of the numpad pass to handleNumberInput
\* (lines 248-252): 1..9, null for the clear button, 0 for the button '0'
NumpadInputs == (1..9) \cup {null, 0}

\* the cells the player clicks
Cells == {<<rowOf(k), colOf(k)>> : k \in 0..MaxCell}

\* the state of App after construction (lines 15-24), nothing in
\* localStorage
UiInit ==
  /\ pc = "mount"
  /\ heap = <<>>
  /\ puzzle = 0
  /\ solution = 0
  /\ current = <<>>
  /\ fixedCells = <<>>
  /\ difficulty = "easy"
  /\ selectedCell = NoCell
  /\ stored = NoState
  /\ generated = <<>>
  /\ rng = 0 /\ positions = <<>> /\ idx = 0 /\ clues = 0
  /\ arg = 0 /\ before = <<>> /\ ret = <<>>

\* the effect of the first mount (lines 30-42): loadState returns null,
\* startNewGame('easy')
UiMount ==
  /\ pc = "mount"
  /\ pc' = "ui"
  /\ \E games \in {generatedGames(GameSeeds)} :
        /\ generated' = games
        /\ \E x \in GameSeeds : startNewGame("easy", games["easy"][x])
  /\ UNCHANGED <<rng, positions, idx, clues, callVars>>

\* a later mount: loadState returns the saved game (lines 32-39);
\* selectedCell starts as null
UiReload ==
  /\ pc = "ui"
  /\ stored # NoState
  /\ heap' = <<stored.solution, stored.puzzle>>
  /\ solution' = 1
  /\ puzzle' = 2
  /\ current' = stored.current
  /\ fixedCells' = stored.fixedCells
  /\ difficulty' = stored.difficulty
  /\ selectedCell' = NoCell
  /\ UNCHANGED <<pc, stored, generated, rng, positions, idx, clues, callVars>>

\* handleNewGame (lines 164-172) when the player confirms or has no entries,
\* and the buttons of the congratulation (lines 269-271); a declined
\* confirm changes nothing
UiNewGame ==
  /\ pc = "ui"
  /\ \E diff \in Difficulty : \E x \in GameSeeds :
        startNewGame(diff, generated[diff][x])
  /\ UNCHANGED <<pc, generated, rng, positions, idx, clues, callVars>>

\* handleReset (lines 174-178) when the player confirms: resetGame
UiReset ==
  /\ pc = "ui"
  /\ current' = cloneGrid(heap, puzzle).heap[cloneGrid(heap, puzzle).ref]
  /\ selectedCell' = NoCell
  /\ stored' = gameState(heap[puzzle], heap[solution], current', fixedCells, difficulty)
  /\ UNCHANGED <<pc, difficulty, heap, genVars, callVars, fixedCells, generated>>

\* handleCellClick (lines 142-147) on a cell that is not fixed; on a fixed
\* cell it changes nothing
UiCellClick ==
  /\ pc = "ui"
  /\ \E cell \in Cells :
        /\ ~fixedCells[cell[1]][cell[2]]
        /\ selectedCell' = cell
  /\ UNCHANGED <<pc, difficulty, heap, genVars, callVars, current, fixedCells, stored, generated>>

\* handleHint (lines 103-109) when findEasiestCell returns a cell.  The
\* function is imported from sudoku.js, which does not define it: its result
\* is taken to be any cell
UiHint ==
  /\ pc = "ui"
  /\ \E easyCell \in Cells : selectedCell' = easyCell
  /\ UNCHANGED <<pc, difficulty, heap, genVars, callVars, current, fixedCells, stored, generated>>

\* handleNumberInput (lines 149-162) with a cell selected that is not fixed;
\* otherwise it changes nothing
UiNumberInput ==
  /\ pc = "ui"
  /\ selectedCell # NoCell
  /\ ~fixedCells[selectedCell[1]][selectedCell[2]]
  /\ \E num \in NumpadInputs :
        current' = [current EXCEPT ![selectedCell[1]][selectedCell[2]] = num]
  /\ stored' = gameState(heap[puzzle], heap[solution], current', fixedCells, difficulty)
  /\ UNCHANGED <<pc, difficulty, heap, genVars, callVars, fixedCells, selectedCell, generated>>

UiNext ==
  \/ UiMount
  \/ UiReload
  \/ UiNewGame
  \/ UiReset
  \/ UiCellClick
  \/ UiHint
  \/ UiNumberInput

UiSpec == UiInit /\ [][UiNext]_vars

\* ------------------------------------------------- properties of GenSpec
\* the number of filled cells of a grid
filled(grid) == Cardinality({k \in 0..80 : grid[rowOf(k)][colOf(k)] # null})

\* the cell the last pass of the removal loop was about
lastCell == positions[idx - 1]

\* C1: at the start of the removal loop, after every pass of it (accepted or
\* rejected) and when generatePuzzle returns, the puzzle grid has exactly one
\* completion: countSolutions(puzzle, 2) = 1.
C1_UniqueCompletion ==
  pc \in {"loop", "done"} => countSolutions(heap, puzzle, 2).result = 1

\* C1 case: the last pass restored its digit because removing it leaves
\* more than one completion
C1_RejectedForUniqueness ==
  /\ pc = "loop" /\ idx > 1
  /\ heap[puzzle][rowOf(lastCell)][colOf(lastCell)] # null
  /\ countSolutions(setCell(heap, puzzle, lastCell, null), puzzle, 2).result = 2

\* C2: when generatePuzzle returns, solve(puzzle) returns a grid equal to
\* solution in every cell and every filled cell of puzzle equals the same
\* cell of solution; no step of the removal loop alters the solution grid.
C2_RoundTrip ==
  /\ [](pc = "done" =>
          /\ solve(heap, puzzle).result # 0
          /\ solve(heap, puzzle).heap[solve(heap, puzzle).result] = heap[solution]
          /\ \A k \in 0..80 :
               heap[puzzle][rowOf(k)][colOf(k)] # null =>
                 heap[puzzle][rowOf(k)][colOf(k)] = heap[solution][rowOf(k)][colOf(k)])
  /\ [][pc = "loop" => heap'[solution] = heap[solution]]_vars

\* C2 case: generatePuzzle has returned a puzzle with empty cells, which
\* solve fills
C2_ReturnedWithEmptyCells ==
  /\ pc = "done"
  /\ filled(heap[puzzle]) < 81
  /\ solve(heap, puzzle).result # 0

\* C3: in the removal loop and when generatePuzzle returns, the counter
\* clues equals the number of filled cells of puzzle and is at least
\* targetClues (45 for easy, 35 for medium, 28 for hard).
C3_ClueBound ==
  pc \in {"loop", "done"} =>
    /\ clues = filled(heap[puzzle])
    /\ clues >= targetClues(difficulty)

\* C3 case: the loop has reached the target and breaks with positions left
C3_TargetReached ==
  /\ pc = "done"
  /\ idx <= 81
  /\ clues = targetClues(difficulty)
  /\ filled(heap[puzzle]) = targetClues(difficulty)

\* C4: for easy and medium, canSolveWithBasicDeduction(puzzle) is true at the
\* start of the removal loop, after every pass of it and when generatePuzzle
\* returns.
C4_BasicDeductionSuffices ==
  (pc \in {"loop", "done"} /\ difficulty \in {"easy", "medium"}) =>
     canSolveWithBasicDeduction(heap, puzzle).result

\* C4 case: the last pass restored its digit although removing it leaves one
\* completion: the basic techniques do not solve the puzzle without it
C4_RejectedAsTooHard ==
  /\ pc = "loop" /\ idx > 1
  /\ difficulty \in {"easy", "medium"}
  /\ heap[puzzle][rowOf(lastCell)][colOf(lastCell)] # null
  /\ countSolutions(setCell(heap, puzzle, lastCell, null), puzzle, 2).result = 1
  /\ ~canSolveWithBasicDeduction(setCell(heap, puzzle, lastCell, null), puzzle).result

\* ------------------------------------------------ properties of GridSpec
\* C5: generateSolvedGrid returns a grid for which isSolved is true, and the
\* boolean returned by solveInPlace, which it ignores, is true.
C5_SolvedGrid ==
  pc = "done" => (ret = TRUE /\ isSolved(heap[solution]))

\* C5 case: the three diagonal boxes hold shuffled digits (not in ascending
\* order) and the completion has run
C5_CompletedFromDiagonal ==
  /\ pc = "done"
  /\ \A box \in 0..2 : heap[solution][box * 3][box * 3] # 1
  /\ \A k \in 0..80 : heap[solution][rowOf(k)][colOf(k)] # null

\* ------------------------------------------------ properties of CallSpec
\* two equal digits in one row
hasRowDuplicate(grid) ==
  \E r \in 0..8 : \E c1 \in 0..8 : \E c2 \in 0..8 :
     c1 < c2 /\ grid[r][c1] # null /\ grid[r][c1] = grid[r][c2]

\* the fully filled grids reachable from grid by legal placements
RECURSIVE completions(_)
completions(grid) ==
  IF firstEmpty(grid) = 81 THEN {grid}
  ELSE UNION {completions([grid EXCEPT ![rowOf(firstEmpty(grid))][colOf(firstEmpty(grid))] = num]) :
                num \in {n \in 1..9 : isValidPlacement(grid, rowOf(firstEmpty(grid)),
                                                       colOf(firstEmpty(grid)), n)}}

min(a, b) == IF a < b THEN a ELSE b

\* C6: solve returns null for a grid with two equal digits in one row, and
\* whenever solve returns a grid, isSolved of that grid is true.
C6_SolveRejectsRowDuplicates ==
  (pc = "called" /\ ret.fn = "solve") =>
     /\ hasRowDuplicate(before) => ret.result = 0
     /\ ret.result # 0 => isSolved(heap[ret.result])

\* C7: countSolutions(grid, cap) is in 0..cap, and it is the number of
\* completions of grid when that is below cap, cap otherwise.
C7_CountWithinCap ==
  (pc = "called" /\ ret.fn = "countSolutions") =>
     /\ ret.result \in 0..ret.cap
     /\ ret.result = min(Cardinality(completions(before)), ret.cap)

\* C8: when solve, countSolutions, canSolveWithBasicDeduction or
\* requiresLookahead has returned, whatever it returned, the grid it was
\* called with holds in every cell what it held when the call was made.
C8_CallerGridUnchanged ==
  pc = "called" => heap[arg] = before

\* C8 case: solve has filled empty cells and returned the filled grid, and
\* the caller's grid still has its empty cells
C8_SolveFilledItsClone ==
  /\ pc = "called"
  /\ ret.fn = "solve"
  /\ ret.result # 0
  /\ filled(heap[ret.result]) = 81
  /\ filled(before) < 81
  /\ filled(heap[arg]) < 81

\* -------------------------------------------------- properties of UiSpec
\* C9: every cell of current is null or a digit in 1..9.
C9_CellsAreDigitsOrEmpty ==
  pc = "ui" =>
    \A r \in 0..8 : \A c \in 0..8 : current[r][c] = null \/ current[r][c] \in 1..9

\* C10: fixedCells marks exactly the filled cells of puzzle, and every cell
\* it marks holds in current the digit it holds in puzzle.
C10_CluesKept ==
  pc = "ui" =>
    \A r \in 0..8 : \A c \in 0..8 :
       /\ fixedCells[r][c] = (heap[puzzle][r][c] # null)
       /\ fixedCells[r][c] => current[r][c] = heap[puzzle][r][c]

\* C10 case: after a new game of another difficulty the player has entered
\* a number into a selected cell
C10_EntryMadeBesideClues ==
  /\ pc = "ui"
  /\ difficulty # "easy"
  /\ selectedCell # NoCell
  /\ hasUserEntries

\* ------------------------------------------------ properties of LookSpec
\* the cell a trial of the scan is about, and its candidates in workGrid
trialRow == rowOf(idx \div 2)
trialCol == colOf(idx \div 2)
trialCandidates == getCandidates(heap[workRef], trialRow, trialCol)

\* does placing candidates[n] in the cell of the trial lead to a contradiction
trialContradicts(n) ==
  contradicts(heap[workRef], trialRow, trialCol, trialCandidates[n])

\* a trial of the scan has written into workGrid
trialForced == pc = "scan" /\ idx <= 161 /\ heap'[workRef] # heap[workRef]

\* the second trial of a cell with two candidates has left workGrid as it was
trialsLeftEmpty ==
  /\ pc = "scan" /\ idx <= 161 /\ idx % 2 = 1
  /\ Len(trialCandidates) = 2
  /\ heap'[workRef] = heap[workRef]

\* C11 as stated: the scan forces a digit into a cell only if the cell is
\* empty with two candidates of which exactly one leads to a contradiction,
\* and the digit is the other one; with neither or both the cell stays empty.
C11_ForcedByExactlyOne ==
  [][trialForced =>
       /\ Len(trialCandidates) = 2
       /\ trialContradicts(1) # trialContradicts(2)
       /\ heap'[workRef] =
            [heap[workRef] EXCEPT ![trialRow][trialCol] =
               IF trialContradicts(1) THEN trialCandidates[2] ELSE trialCandidates[1]]]_vars

\* C11 amended: the scan forces a digit into a cell only if the cell is
\* empty with two candidates of which at least one leads to a contradiction;
\* the digit is the second candidate when the first one contradicts (the
\* second is then not tried), the first when only the second contradicts;
\* when neither contradicts the cell stays empty.
C11_ForcedByFirstContradiction ==
  /\ [][trialForced =>
          /\ Len(trialCandidates) = 2
          /\ IF trialContradicts(1)
             THEN /\ idx % 2 = 0
                  /\ heap'[workRef] = [heap[workRef] EXCEPT ![trialRow][trialCol] = trialCandidates[2]]
             ELSE /\ idx % 2 = 1
                  /\ trialContradicts(2)
                  /\ heap'[workRef] = [heap[workRef] EXCEPT ![trialRow][trialCol] = trialCandidates[1]]]_vars
  /\ [][trialsLeftEmpty => (~trialContradicts(1) /\ ~trialContradicts(2))]_vars

\* the workGrid at "forced" with the forced cell empty again, and the
\* candidates the cell had
unforced == [heap[workRef] EXCEPT ![trialRow][trialCol] = null]
unforcedCandidates == getCandidates(unforced, trialRow, trialCol)

\* C11 case: the scan has forced the second candidate of a cell after the
\* trial of the first, and both candidates lead to a contradiction
C11_SecondForcedBothContradict ==
  /\ pc = "forced"
  /\ idx % 2 = 0
  /\ Len(unforcedCandidates) = 2
  /\ heap[workRef][trialRow][trialCol] = unforcedCandidates[2]
  /\ contradicts(unforced, trialRow, trialCol, unforcedCandidates[1])
  /\ contradicts(unforced, trialRow, trialCol, unforcedCandidates[2])

\* ---------------------------------------------- properties of DeduceSpec
\* the cells a step has written
writtenCells == {k \in 0..80 : heap'[workRef][rowOf(k)][colOf(k)] # heap[workRef][rowOf(k)][colOf(k)]}

\* a digit written into an empty cell k passes isValidPlacement on the grid
\* it is written into and is the digit of cell k in every completion of the
\* caller's grid
soundWrite(k) ==
  /\ heap[workRef][rowOf(k)][colOf(k)] = null
  /\ heap'[workRef][rowOf(k)][colOf(k)] \in 1..9
  /\ isValidPlacement(heap[workRef], rowOf(k), colOf(k), heap'[workRef][rowOf(k)][colOf(k)])
  /\ \A full \in completions(heap[arg]) :
        full[rowOf(k)][colOf(k)] = heap'[workRef][rowOf(k)][colOf(k)]

\* C12: on a grid without violations every digit applyNakedSingles or
\* applyHiddenSingles writes passes isValidPlacement when it is written and
\* agrees with every completion of the grid; when
\* canSolveWithBasicDeduction returns true the grid has exactly one
\* completion, countSolutions(g, 2) = 1, and it is the grid the deduction
\* reached.
C12_BasicDeductionSound ==
  /\ [][(pc \in DeducePhases /\ pc' \in DeducePhases) =>
          (\A k \in writtenCells : soundWrite(k))]_vars
  /\ [][(pc = "box" /\ pc' = "done" /\ ret' = TRUE) =>
          /\ countSolutions(heap, arg, 2).result = 1
          /\ completions(heap[arg]) = {heap[workRef]}]_vars

\* C12 case: canSolveWithBasicDeduction has returned true for a grid with
\* empty cells
C12_SolvedByDeduction ==
  /\ pc = "done"
  /\ ret = TRUE
  /\ filled(heap[arg]) <= 81 - MinDeduceEmpty

====
